---- MODULE Spec2Model ----
(***************************************************************************)
(* A model of mitmproxy/proxy/layers/websocket.py: the WebsocketLayer      *)
(* relay state machine (start / relay_messages / done), the thin           *)
(* WebsocketConnection wrapper around wsproto.Connection, the Fragmentizer *)
(* and format_close_event.                                                 *)
(*                                                                         *)
(* bytes are sequences of integers 0..255, str are sequences of code       *)
(* points.  bytes.decode(errors="replace") and str.encode() are modelled   *)
(* as UTF-8 conversions, byte by byte.                                     *)
(***************************************************************************)
EXTENDS Integers, Sequences, FiniteSets, TLC

\* ------------------------------------------------------------------ bounds

\* Longest fragment-length profile drawn for the Fragmentizer.
MaxFrags == 3
\* Largest "small" fragment length drawn for a profile entry.
MaxFragLen == 2
\* Largest "small" content length drawn for the Fragmentizer.
MaxSmallLen == 4
\* Content lengths around k * FRAGMENT_SIZE are drawn for k up to MaxBlocks.
MaxBlocks == 2

\* ----------------------------------------------------------- program constants

\* Fragmentizer.FRAGMENT_SIZE
FRAGMENT_SIZE == 4000

\* ------------------------------------------------------------------ helpers

Min(a, b) == IF a < b THEN a ELSE b

\* Python's s[a:b] for 0 <= a, 0 <= b on a sequence (indices clamp to len(s)).
Slice(s, a, b) == SubSeq(s, a + 1, Min(b, Len(s)))

\* Python's s[a:]
SliceFrom(s, a) == SubSeq(s, a + 1, Len(s))

\* Python's b"".join(list)
RECURSIVE Join(_)
Join(chunks) ==
    IF chunks = <<>> THEN <<>> ELSE Head(chunks) \o Join(Tail(chunks))

\* Python's sum(list)
RECURSIVE Sum(_)
Sum(ns) == IF ns = <<>> THEN 0 ELSE Head(ns) + Sum(Tail(ns))

\* ------------------------------------------------- UTF-8 (str.encode / decode)

REPLACEMENT == 65533

IsCont(b) == b >= 128 /\ b <= 191

\* Number of continuation bytes a lead byte announces (0: not a lead byte).
Need(b) ==
    IF b >= 194 /\ b <= 223 THEN 1
    ELSE IF b >= 224 /\ b <= 239 THEN 2
    ELSE IF b >= 240 /\ b <= 244 THEN 3
    ELSE 0

\* Is c a valid first continuation byte after lead byte b?
FirstContOk(b, c) ==
    CASE b = 224 -> c >= 160 /\ c <= 191
      [] b = 237 -> c >= 128 /\ c <= 159
      [] b = 240 -> c >= 144 /\ c <= 191
      [] b = 244 -> c >= 128 /\ c <= 143
      [] OTHER   -> IsCont(c)

\* The number of bytes of s that the decoder consumes as one unit starting
\* at position i, given a unit starts there: a whole well-formed character,
\* or the maximal ill-formed subpart that becomes one U+FFFD.
UnitLen(s, i) ==
    LET b == s[i]
        n == Len(s)
        need == Need(b)
    IN  IF need = 0 THEN 1
        ELSE IF i + 1 > n \/ ~FirstContOk(b, s[i + 1]) THEN 1
        ELSE IF need = 1 THEN 2
        ELSE IF i + 2 > n \/ ~IsCont(s[i + 2]) THEN 2
        ELSE IF need = 2 THEN 3
        ELSE IF i + 3 > n \/ ~IsCont(s[i + 3]) THEN 3
        ELSE 4

\* The code point the unit at i decodes to.
UnitCodePoint(s, i) ==
    LET b == s[i]
        need == Need(b)
        len == UnitLen(s, i)
    IN  IF b < 128 THEN b
        ELSE IF need = 0 \/ len # need + 1 THEN REPLACEMENT
        ELSE IF need = 1 THEN (b - 192) * 64 + (s[i + 1] - 128)
        ELSE IF need = 2 THEN
            (b - 224) * 4096 + (s[i + 1] - 128) * 64 + (s[i + 2] - 128)
        ELSE (b - 240) * 262144 + (s[i + 1] - 128) * 4096
                 + (s[i + 2] - 128) * 64 + (s[i + 3] - 128)

\* Does a unit start at position i?  Lead bytes, ASCII and invalid bytes
\* always start one; a continuation byte starts one (a lone U+FFFD) unless
\* the unit of a lead byte up to three positions back covers it.
UnitStart(s, i) ==
    ~IsCont(s[i])
    \/ ~\E k \in 1..3 :
           /\ i - k >= 1
           /\ Need(s[i - k]) > 0
           /\ \A j \in (i - k + 1)..(i - 1) : IsCont(s[j])
           /\ UnitLen(s, i - k) > k

\* bytes.decode(errors="replace") (UTF-8): a sequence of code points.
Decode(s) ==
    LET starts == SelectSeq([i \in 1..Len(s) |-> i],
                            LAMBDA i : UnitStart(s, i))
    IN  [k \in 1..Len(starts) |-> UnitCodePoint(s, starts[k])]

\* UTF-8 encoding of one code point.
EncodeCodePoint(c) ==
    IF c < 128 THEN <<c>>
    ELSE IF c < 2048 THEN <<192 + (c \div 64), 128 + (c % 64)>>
    ELSE IF c < 65536 THEN
        <<224 + (c \div 4096), 128 + ((c \div 64) % 64), 128 + (c % 64)>>
    ELSE <<240 + (c \div 262144), 128 + ((c \div 4096) % 64),
           128 + ((c \div 64) % 64), 128 + (c % 64)>>

\* str.encode() (UTF-8): the encodings of the code points, concatenated
\* (by halves, which keeps the evaluation shallow on long strings).
RECURSIVE Encode(_)
Encode(str) ==
    IF str = <<>> THEN <<>>
    ELSE IF Len(str) = 1 THEN EncodeCodePoint(str[1])
    ELSE LET half == Len(str) \div 2
         IN  Encode(SubSeq(str, 1, half))
                 \o Encode(SubSeq(str, half + 1, Len(str)))

\* -------------------------------------------------------------- Fragmentizer

\* Fragmentizer.__init__: only the lengths of the fragments are kept.
Fragmentizer(fragments, is_text) ==
    [fragment_lengths |-> [i \in 1..Len(fragments) |-> Len(fragments[i])],
     is_text |-> is_text]

\* Fragmentizer.msg
Msg(fz, data, message_finished) ==
    IF fz.is_text
    THEN [kind |-> "TextMessage", data |-> Decode(data),
          message_finished |-> message_finished]
    ELSE [kind |-> "BytesMessage", data |-> data,
          message_finished |-> message_finished]

\* The loop of the equal-length branch, from index k (1-based) of
\* fragment_lengths[:-1], with the running offset.
RECURSIVE ReplayLoop(_, _, _, _)
ReplayLoop(fz, content, k, offset) ==
    IF k >= Len(fz.fragment_lengths)
    THEN <<Msg(fz, SliceFrom(content, offset), TRUE)>>
    ELSE LET fl == fz.fragment_lengths[k]
         IN  <<Msg(fz, Slice(content, offset, offset + fl), FALSE)>>
                 \o ReplayLoop(fz, content, k + 1, offset + fl)

\* A while loop that steps one byte too far after each chunk.
RECURSIVE RechunkLoopSkipping(_, _, _, _)
RechunkLoopSkipping(fz, content, offset, total) ==
    IF offset < total
    THEN <<Msg(fz, Slice(content, offset, offset + FRAGMENT_SIZE), FALSE)>>
             \o RechunkLoopSkipping(fz, content, offset + FRAGMENT_SIZE + 1,
                                    total)
    ELSE <<Msg(fz, SliceFrom(content, offset), TRUE)>>

\* The while loop of the other branch.
RECURSIVE RechunkLoop(_, _, _, _)
RechunkLoop(fz, content, offset, total) ==
    IF offset < total
    THEN <<Msg(fz, Slice(content, offset, offset + FRAGMENT_SIZE), FALSE)>>
             \o RechunkLoop(fz, content, offset + FRAGMENT_SIZE, total)
    ELSE <<Msg(fz, SliceFrom(content, offset), TRUE)>>

\* __call__ without its first two lines: empty content is not special.
FragmentizerCallNoEmptyCheck(fz, content) ==
    IF Len(content) = Sum(fz.fragment_lengths)
    THEN ReplayLoop(fz, content, 1, 0)
    ELSE RechunkLoop(fz, content, 0, Len(content) - FRAGMENT_SIZE)

\* Fragmentizer.__call__: the sequence of messages the generator yields.
FragmentizerCall(fz, content) ==
    IF content = <<>> THEN <<>>
    ELSE IF Len(content) = Sum(fz.fragment_lengths)
    THEN ReplayLoop(fz, content, 1, 0)
    ELSE RechunkLoop(fz, content, 0, Len(content) - FRAGMENT_SIZE)

\* ------------------------------------------------------------ Optional values

\* Python's None and a present value, for Optional fields.
None == <<>>
Some(x) == <<x>>

\* ------------------------------------------------------------------- state

VARIABLES
    handler,     \* WebsocketLayer._handle_event: "start", "relay_messages", "done"
    ext_header,  \* flow.response.headers["Sec-WebSocket-Extensions"], a str
    client_ws,   \* WebsocketLayer.client_ws (a WebsocketConnection)
    server_ws,   \* WebsocketLayer.server_ws (a WebsocketConnection)
    flow,        \* flow.websocket.{messages, closed_by_client, close_code,
                 \* close_reason} and flow.error
    cmds,        \* every command the layer has yielded, in order
    raised,      \* the exception that left the handler, "" when none did
    cur,         \* the position in relay_messages: idle, or inside the
                 \* for-loop over src_ws.events() of one inbound event
    ws_event,    \* the loop variable: the event events() yielded last
    drained,     \* number of inbound events done() has accepted
    n_ev,        \* number of protocol events the codecs have produced
    suspended,   \* the blocking hook the running handler waits at ("" when
                 \* none) and the local variable fragmentizer it holds
    frag         \* a Fragmentizer under test: its inputs and what it yielded

vars == <<handler, ext_header, client_ws, server_ws, flow, cmds, raised,
          cur, ws_event, drained, n_ev, suspended, frag>>

layer_vars == <<handler, ext_header, client_ws, server_ws, flow, cmds, raised,
                cur, ws_event, drained, n_ev, suspended>>

\* ------------------------------------------------------------------ bounds

\* Inbound events delivered after the layer is done, in one run.
MaxDrain == 2
\* Protocol events the two codecs produce in one run.
MaxEvents == 3

\* ------------------------------------------------------------- input domains

\* Tokens of the extension header (str: sequences of code points).
\* "permessage-deflate; server_max_window_bits=10"
DeflateToken ==
    <<112, 101, 114, 109, 101, 115, 115, 97, 103, 101, 45, 100, 101, 102,
      108, 97, 116, 101, 59, 32, 115, 101, 114, 118, 101, 114, 95, 109, 97,
      120, 95, 119, 105, 110, 100, 111, 119, 95, 98, 105, 116, 115, 61, 49,
      48>>
\* "x-webkit-deflate-frame"
UnknownToken ==
    <<120, 45, 119, 101, 98, 107, 105, 116, 45, 100, 101, 102, 108, 97, 116,
      101, 45, 102, 114, 97, 109, 101>>
\* " permessage-deflate "
BareDeflateToken ==
    <<32, 112, 101, 114, 109, 101, 115, 115, 97, 103, 101, 45, 100, 101, 102,
      108, 97, 116, 101, 32>>
\* "Permessage-Deflate"
CapitalToken ==
    <<80, 101, 114, 109, 101, 115, 115, 97, 103, 101, 45, 68, 101, 102, 108,
      97, 116, 101>>
\* "d\u00e9"
NonAsciiToken == <<100, 233>>
\* The empty token of a header such as "a,,b".
EmptyToken == <<>>
\* "\\x1cpermessage-deflate\\x1f; server_no_context_takeover"
SeparatorToken ==
    <<28, 112, 101, 114, 109, 101, 115, 115, 97, 103, 101, 45, 100, 101,
      102, 108, 97, 116, 101, 31, 59, 32, 115, 101, 114, 118, 101, 114, 95,
      110, 111, 95, 99, 111, 110, 116, 101, 120, 116, 95, 116, 97, 107, 101,
      111, 118, 101, 114>>
\* "permessage-deflate; client_max_window_bits"
NoValueToken ==
    <<112, 101, 114, 109, 101, 115, 115, 97, 103, 101, 45, 100, 101, 102,
      108, 97, 116, 101, 59, 32, 99, 108, 105, 101, 110, 116, 95, 109, 97,
      120, 95, 119, 105, 110, 100, 111, 119, 95, 98, 105, 116, 115>>
\* "permessage-deflate; server_max_window_bits=99"
OutOfRangeToken ==
    <<112, 101, 114, 109, 101, 115, 115, 97, 103, 101, 45, 100, 101, 102,
      108, 97, 116, 101, 59, 32, 115, 101, 114, 118, 101, 114, 95, 109, 97,
      120, 95, 119, 105, 110, 100, 111, 119, 95, 98, 105, 116, 115, 61, 57,
      57>>
\* "permessage-deflate;client_max_window_bits = abc"
NotANumberToken ==
    <<112, 101, 114, 109, 101, 115, 115, 97, 103, 101, 45, 100, 101, 102,
      108, 97, 116, 101, 59, 99, 108, 105, 101, 110, 116, 95, 109, 97, 120,
      95, 119, 105, 110, 100, 111, 119, 95, 98, 105, 116, 115, 32, 61, 32,
      97, 98, 99>>

Tokens ==
    {DeflateToken, UnknownToken, BareDeflateToken, CapitalToken,
     NonAsciiToken, EmptyToken, SeparatorToken, NoValueToken,
     OutOfRangeToken, NotANumberToken}

\* Most tokens in a header that is drawn.
MaxTokens == 3

\* A header: its tokens joined by ", ".
RECURSIVE JoinTokens(_)
JoinTokens(tokens) ==
    IF tokens = <<>> THEN <<>>
    ELSE IF Len(tokens) = 1 THEN tokens[1]
    ELSE tokens[1] \o <<44, 32>> \o JoinTokens(Tail(tokens))

\* str payloads of TextMessage events and bytes payloads of BytesMessage events.
TextData == {<<8364>>}
BytesData == {<<>>, <<7>>}
Payloads == {<<9>>}

\* Close frames a peer can send: code and reason.  A frame without a payload
\* is reported by the codec as code 1005 with an empty reason.
CloseFrames ==
    {[code |-> 1000, reason |-> ""], [code |-> 1001, reason |-> "bye"],
     [code |-> 1005, reason |-> ""], [code |-> 1011, reason |-> ""],
     [code |-> 4000, reason |-> "bye"]}

MessageEvents ==
    [kind : {"TextMessage"}, data : TextData, message_finished : BOOLEAN]
    \cup [kind : {"BytesMessage"}, data : BytesData, message_finished : BOOLEAN]

PingPongEvents == [kind : {"Ping", "Pong"}, payload : Payloads]

\* ----------------------------------------------- wsproto.Connection (the codec)

\* WebsocketConnection.__init__: a wsproto.Connection starts OPEN, with an
\* empty event queue, plus the frame buffer the wrapper adds.
WebsocketConnection(conn, extensions) ==
    [conn |-> conn, state |-> "OPEN", frame_buf |-> <<>>, events |-> <<>>,
     extensions |-> extensions]

\* client_ws / server_ws before start() has assigned them.
Unset(conn) ==
    [conn |-> conn, state |-> "UNSET", frame_buf |-> <<>>, events |-> <<>>,
     extensions |-> <<>>]

\* wsproto.Connection.send accepts data and control events only when OPEN
\* and a close event only when OPEN or REMOTE_CLOSING; otherwise it raises
\* LocalProtocolError.
CanSend(ws, event) ==
    IF event.kind = "CloseConnection"
    THEN ws.state \in {"OPEN", "REMOTE_CLOSING"}
    ELSE ws.state = "OPEN"

\* The codec after wsproto.Connection.send(event).
AfterSend(ws, event) ==
    IF event.kind = "CloseConnection"
    THEN [ws EXCEPT !.state =
              IF @ = "REMOTE_CLOSING" THEN "CLOSED" ELSE "LOCAL_CLOSING"]
    ELSE ws

\* The codec after wsproto has decoded a close frame (done when events()
\* yields the CloseConnection event).
AfterCloseFrame(ws) ==
    [ws EXCEPT !.state =
         IF @ = "LOCAL_CLOSING" THEN "CLOSED" ELSE "REMOTE_CLOSING"]

\* wsproto.Connection.receive_data(None): the transport ended without a
\* close frame, so close code 1006 is queued and the codec is CLOSED.
AfterEndOfStream(ws) ==
    [ws EXCEPT !.state = "CLOSED",
               !.events = Append(@, [kind |-> "CloseConnection",
                                     code |-> 1006, reason |-> None])]

\* ------------------------------------------------------------------ commands

SendData(conn, event) == [cmd |-> "SendData", conn |-> conn, event |-> event]
CloseConnection(conn) == [cmd |-> "CloseConnection", conn |-> conn]
LogPingPong(kind, from_str, payload) ==
    [cmd |-> "Log", what |-> kind, from_str |-> from_str, payload |-> payload]
LogUnknownExtension(ext_name) ==
    [cmd |-> "Log", what |-> "Ignoring unknown WebSocket extension",
     ext_name |-> ext_name]
\* A hook carries the flow: what the hook sees of it when it fires.
Hook(name, fl) ==
    [cmd |-> "Hook", name |-> name, error |-> fl.error,
     messages |-> Len(fl.messages)]

\* ---------------------------------------------------------- the layer's state

\* The layer as one value, so that the statements of a handler compose.
Layer ==
    [handler |-> handler, client_ws |-> client_ws, server_ws |-> server_ws,
     flow |-> flow, cmds |-> cmds, raised |-> raised]

Yield(L, c) == [L EXCEPT !.cmds = Append(@, c)]
Raise(L, exc) == [L EXCEPT !.raised = exc]
Ws(L, conn) == IF conn = "client" THEN L.client_ws ELSE L.server_ws
SetWs(L, conn, ws) ==
    IF conn = "client" THEN [L EXCEPT !.client_ws = ws]
    ELSE [L EXCEPT !.server_ws = ws]

\* A relay that takes the client's codec as the source of every event.
SrcConnAlwaysClient(from_client) == "client"

SrcConn(from_client) == IF from_client THEN "client" ELSE "server"
DstConn(from_client) == IF from_client THEN "server" ELSE "client"

\* WebsocketConnection.send2: encode through the codec, then SendData.
Send2(L, conn, event) ==
    IF L.raised # "" THEN L
    ELSE IF ~CanSend(Ws(L, conn), event) THEN Raise(L, "LocalProtocolError")
    ELSE Yield(SetWs(L, conn, AfterSend(Ws(L, conn), event)),
               SendData(conn, event))

\* A loop that sends the parts last to first.
RECURSIVE SendAllReversed(_, _, _)
SendAllReversed(L, conn, parts) ==
    IF parts = <<>> \/ L.raised # "" THEN L
    ELSE SendAllReversed(Send2(L, conn, parts[Len(parts)]), conn,
                         SubSeq(parts, 1, Len(parts) - 1))

\* for msg in fragmentizer(message.content): yield dst_ws.send2(msg)
RECURSIVE SendAll(_, _, _)
SendAll(L, conn, parts) ==
    IF parts = <<>> \/ L.raised # "" THEN L
    ELSE SendAll(Send2(L, conn, Head(parts)), conn, Tail(parts))

\* ------------------------------------------------------- format_close_event

\* wsproto.frame_protocol.CloseReason(code).name, "" when it raises ValueError.
CloseReasonName(code) ==
    CASE code = 1000 -> "NORMAL_CLOSURE"
      [] code = 1001 -> "GOING_AWAY"
      [] code = 1002 -> "PROTOCOL_ERROR"
      [] code = 1003 -> "UNSUPPORTED_DATA"
      [] code = 1005 -> "NO_STATUS_RCVD"
      [] code = 1006 -> "ABNORMAL_CLOSURE"
      [] code = 1007 -> "INVALID_FRAME_PAYLOAD_DATA"
      [] code = 1008 -> "POLICY_VIOLATION"
      [] code = 1009 -> "MESSAGE_TOO_BIG"
      [] code = 1010 -> "MANDATORY_EXT"
      [] code = 1011 -> "INTERNAL_ERROR"
      [] code = 1012 -> "SERVICE_RESTART"
      [] code = 1013 -> "TRY_AGAIN_LATER"
      [] code = 1015 -> "TLS_HANDSHAKE_FAILED"
      [] OTHER -> ""

format_close_event(event) ==
    LET ret == IF CloseReasonName(event.code) # ""
               THEN CloseReasonName(event.code)
               ELSE "UNKNOWN_ERROR=" \o ToString(event.code)
    IN  IF event.reason # None /\ event.reason[1] # ""
        THEN ret \o " (reason: " \o event.reason[1] \o ")"
        ELSE ret

\* ---------------------------------------------------------- WebsocketLayer.start

\* str.isspace() of one character: the ASCII whitespace, the separators
\* FS, GS, RS, US, and the whitespace outside ASCII.
IsSpace(c) ==
    c \in {9, 10, 11, 12, 13, 28, 29, 30, 31, 32, 133, 160, 5760, 8232, 8233,
           8239, 8287, 12288} \cup (8192..8202)

\* str.strip(): without the whitespace at both ends.
Strip(str) ==
    LET kept == {i \in 1..Len(str) : ~IsSpace(str[i])}
    IN  IF kept = {} THEN <<>>
        ELSE SubSeq(str, CHOOSE i \in kept : \A j \in kept : i <= j,
                         CHOOSE i \in kept : \A j \in kept : j <= i)

\* str.split(sep): the pieces between the occurrences of sep.
RECURSIVE Split(_, _)
Split(str, sep) ==
    LET at == {i \in 1..Len(str) : str[i] = sep}
    IN  IF at = {} THEN <<str>>
        ELSE LET i == CHOOSE i \in at : \A j \in at : i <= j
             IN  <<SubSeq(str, 1, i - 1)>>
                 \o Split(SubSeq(str, i + 1, Len(str)), sep)

\* ext_header.encode("ascii", "replace"), read back as str: "?" for every
\* character that is not ASCII.
AsciiReplace(str) == [i \in 1..Len(str) |-> IF str[i] > 127 THEN 63 ELSE str[i]]

\* wsproto.utilities.split_comma_header: the pieces between commas, stripped.
split_comma_header(value) ==
    LET pieces == Split(value, 44)
    IN  [i \in 1..Len(pieces) |-> Strip(pieces[i])]

\* ext.split(";", 1)[0].strip()
ExtName(ext) == Strip(Head(Split(ext, 59)))

\* wsproto.extensions.PerMessageDeflate.name
PerMessageDeflateName ==
    <<112, 101, 114, 109, 101, 115, 115, 97, 103, 101, 45, 100, 101, 102,
      108, 97, 116, 101>>

\* str.startswith(prefix)
StartsWith(str, prefix) ==
    Len(str) >= Len(prefix) /\ SubSeq(str, 1, Len(prefix)) = prefix

\* "client_no_context_takeover"
ClientNoContextTakeover ==
    <<99, 108, 105, 101, 110, 116, 95, 110, 111, 95, 99, 111, 110, 116, 101,
      120, 116, 95, 116, 97, 107, 101, 111, 118, 101, 114>>
\* "server_no_context_takeover"
ServerNoContextTakeover ==
    <<115, 101, 114, 118, 101, 114, 95, 110, 111, 95, 99, 111, 110, 116,
      101, 120, 116, 95, 116, 97, 107, 101, 111, 118, 101, 114>>
\* "client_max_window_bits"
ClientMaxWindowBits ==
    <<99, 108, 105, 101, 110, 116, 95, 109, 97, 120, 95, 119, 105, 110, 100,
      111, 119, 95, 98, 105, 116, 115>>
\* "server_max_window_bits"
ServerMaxWindowBits ==
    <<115, 101, 114, 118, 101, 114, 95, 109, 97, 120, 95, 119, 105, 110,
      100, 111, 119, 95, 98, 105, 116, 115>>

\* bit.split("=", 1)[1]: what follows the first "=", None when there is no
\* "=" (the index raises IndexError).
AfterEquals(bit) ==
    LET at == {i \in 1..Len(bit) : bit[i] = 61}
    IN  IF at = {} THEN None
        ELSE Some(SubSeq(bit, (CHOOSE i \in at : \A j \in at : i <= j) + 1,
                         Len(bit)))

\* The digits of an integer literal, after its sign: decimal digits, single
\* underscores allowed between them.
IsDigits(body) ==
    /\ body # <<>>
    /\ \A i \in 1..Len(body) : body[i] \in (48..57) \cup {95}
    /\ body[1] # 95 /\ body[Len(body)] # 95
    /\ \A i \in 1..(Len(body) - 1) : ~(body[i] = 95 /\ body[i + 1] = 95)

RECURSIVE DigitsValue(_, _)
DigitsValue(body, acc) ==
    IF body = <<>> THEN acc
    ELSE DigitsValue(Tail(body),
                     IF Head(body) = 95 THEN acc
                     ELSE 10 * acc + (Head(body) - 48))

\* int() of text without whitespace around it: an optional sign, the digits.
SignedValue(t) ==
    IF t # <<>> /\ t[1] = 45 THEN Some(0 - DigitsValue(Tail(t), 0))
    ELSE IF t # <<>> /\ t[1] = 43 THEN Some(DigitsValue(Tail(t), 0))
    ELSE Some(DigitsValue(t, 0))

IsSigned(t) == t # <<>> /\ t[1] \in {43, 45}

IsIntLiteral(t) == IF IsSigned(t) THEN IsDigits(Tail(t)) ELSE IsDigits(t)

\* int(str) for ASCII text: whitespace around, an optional sign, the digits;
\* None when int() raises ValueError.
PyInt(str) ==
    IF IsIntLiteral(Strip(str)) THEN SignedValue(Strip(str)) ELSE None

\* wsproto.extensions.PerMessageDeflate(): a new instance; id is its
\* identity (the order in which it was constructed).  raised is the
\* exception finalize() left with, "" when none.
NewPerMessageDeflate(id) ==
    [name |-> "permessage-deflate", id |-> id, offer |-> <<>>,
     enabled |-> FALSE,
     client_no_context_takeover |-> FALSE,
     server_no_context_takeover |-> FALSE,
     client_max_window_bits |-> 15, server_max_window_bits |-> 15,
     raised |-> ""]

\* The setter of <side>_max_window_bits, given the Optional result of
\* int(): ValueError when int() raised or the value is outside 9..15.
SetWindow(ext, side, bits) ==
    IF bits = None THEN [ext EXCEPT !.raised = "ValueError"]
    ELSE IF bits[1] < 9 \/ bits[1] > 15
    THEN [ext EXCEPT !.raised = "ValueError"]
    ELSE IF side = "client"
    THEN [ext EXCEPT !.client_max_window_bits = bits[1]]
    ELSE [ext EXCEPT !.server_max_window_bits = bits[1]]

\* "self.<side>_max_window_bits = int(bit.split("=", 1)[1].strip())": the
\* index raises IndexError, int() ValueError, and so does the setter for a
\* value outside 9..15.
SetMaxWindowBits(ext, side, bit) ==
    IF AfterEquals(bit) = None THEN [ext EXCEPT !.raised = "IndexError"]
    ELSE SetWindow(ext, side, PyInt(Strip(AfterEquals(bit)[1])))

\* The body of the loop of finalize() for one bit.
FinalizeBit(ext, bit) ==
    IF StartsWith(bit, ClientNoContextTakeover)
    THEN [ext EXCEPT !.client_no_context_takeover = TRUE]
    ELSE IF StartsWith(bit, ServerNoContextTakeover)
    THEN [ext EXCEPT !.server_no_context_takeover = TRUE]
    ELSE IF StartsWith(bit, ClientMaxWindowBits)
    THEN SetMaxWindowBits(ext, "client", bit)
    ELSE IF StartsWith(bit, ServerMaxWindowBits)
    THEN SetMaxWindowBits(ext, "server", bit)
    ELSE ext

\* The loop of finalize() over bits[1:], from bit k; then _enabled = True.
RECURSIVE FinalizeBits(_, _, _)
FinalizeBits(ext, bits, k) ==
    IF ext.raised # "" THEN ext
    ELSE IF k > Len(bits) THEN [ext EXCEPT !.enabled = TRUE]
    ELSE FinalizeBits(FinalizeBit(ext, Strip(bits[k])), bits, k + 1)

\* wsproto.extensions.PerMessageDeflate.finalize(offer)
Finalize(ext, offer) ==
    FinalizeBits([ext EXCEPT !.offer = offer], Split(offer, 59), 2)

\* One instance offered to both codecs.
PerMessageDeflateShared(id, offer) == Finalize(NewPerMessageDeflate(0), offer)

\* x = wsproto.extensions.PerMessageDeflate(); x.finalize(ext)
PerMessageDeflate(id, offer) == Finalize(NewPerMessageDeflate(id), offer)

\* The for-loop of start() over the tokens of the header, from token k
\* (no token at all when the header is empty).
\* S holds the layer and the two extension lists built so far.  An
\* exception out of finalize() leaves the loop and start().
RECURSIVE ParseExtensions(_, _, _)
ParseExtensions(S, tokens, k) ==
    IF k > Len(tokens) \/ S.L.raised # "" THEN S
    ELSE LET ext == tokens[k]
             made == Len(S.client_extensions) + Len(S.server_extensions)
             client_deflate == PerMessageDeflate(made + 1, ext)
             server_deflate == PerMessageDeflate(made + 2, ext)
         IN  IF ExtName(ext) = PerMessageDeflateName
             THEN IF client_deflate.raised # ""
                  THEN [S EXCEPT !.L = Raise(@, client_deflate.raised)]
                  ELSE ParseExtensions(
                           [S EXCEPT
                               !.client_extensions = Append(@, client_deflate),
                               !.server_extensions = Append(@, server_deflate)],
                           tokens, k + 1)
             ELSE ParseExtensions(
                      [S EXCEPT !.L = Yield(@, LogUnknownExtension(ExtName(ext)))],
                      tokens, k + 1)

\* start() up to its blocking yield of the start hook: negotiate, build
\* both codecs, fire the hook.  An exception leaves the layer as it was,
\* but for the log entries already yielded.
StartHandler(L, header) ==
    LET tokens == IF header = <<>> THEN <<>>
                  ELSE split_comma_header(AsciiReplace(header))
        S == ParseExtensions(
                 [L |-> L, client_extensions |-> <<>>,
                  server_extensions |-> <<>>], tokens, 1)
        L1 == [S.L EXCEPT
                  !.client_ws = WebsocketConnection("client", S.client_extensions),
                  !.server_ws = WebsocketConnection("server", S.server_extensions)]
    IN  IF S.L.raised # "" THEN S.L
        ELSE Yield(L1, Hook("websocket_start", L1.flow))

\* start() after the start hook has returned.
StartResumed(L) == [L EXCEPT !.handler = "relay_messages"]

\* ------------------------------------------------ WebsocketLayer.relay_messages

\* websocket.WebSocketMessage(typ, from_client, content)
WebSocketMessage(typ, from_client, content) ==
    [type |-> typ, from_client |-> from_client, content |-> content,
     killed |-> FALSE]

\* What an addon may do to the content in the message hook.
Edits == {"keep", "empty", "append"}

\* The runs of the message hook that are drawn: any edit, or a kill.
HookChoices ==
    [killed : {FALSE}, edit : Edits] \cup [killed : {TRUE}, edit : {"keep"}]

ApplyEdit(edit, content) ==
    CASE edit = "keep"   -> content
      [] edit = "empty"  -> <<>>
      [] edit = "append" -> content \o <<33>>

\* A buffer that keeps its fragments when a message completes.
ClearNothing(frame_buf) == frame_buf

\* src_ws.frame_buf.clear()
Clear(frame_buf) == <<>>

\* A relay that forwards every message, killed or not.
ShouldForwardAlways(message) == TRUE

\* "if not message.killed"
ShouldForward(message) == ~message.killed

\* The Message branch of the loop body, up to its blocking yield of the
\* message hook (to its end for a fragment that is not final).
OnMessage(L, from_client, event) ==
    LET src == SrcConn(from_client)
        is_text == event.kind = "TextMessage"
        typ == IF is_text THEN "TEXT" ELSE "BINARY"
        buf == Append(Ws(L, src).frame_buf,
                      IF is_text THEN Encode(event.data) ELSE event.data)
        L1 == SetWs(L, src, [Ws(L, src) EXCEPT !.frame_buf = buf])
    IN  IF ~event.message_finished THEN L1
        ELSE LET content == Join(buf)
                 L2 == SetWs(L1, src,
                             [Ws(L1, src) EXCEPT !.frame_buf = Clear(@)])
                 message == WebSocketMessage(typ, from_client, content)
                 L3 == [L2 EXCEPT !.flow.messages = Append(@, message)]
             IN  Yield(L3, Hook("websocket_message", L3.flow))

\* The local variable fragmentizer the generator holds while it waits:
\* Fragmentizer(src_ws.frame_buf, is_text), built before the buffer is
\* cleared.
MessageFragmentizer(L, from_client, event) ==
    LET is_text == event.kind = "TextMessage"
    IN  Fragmentizer(Append(Ws(L, SrcConn(from_client)).frame_buf,
                            IF is_text THEN Encode(event.data)
                            ELSE event.data),
                     is_text)

\* What the message hook did to flow.websocket.messages[-1] while the layer
\* waited: killed and edit.
Hooked(L, killed, edit) ==
    [L EXCEPT !.flow.messages[Len(L.flow.messages)] =
         [@ EXCEPT !.content = ApplyEdit(edit, @), !.killed = killed]]

\* The Message branch after the message hook has returned.
OnMessageResumed(L, from_client, fragmentizer) ==
    LET message == L.flow.messages[Len(L.flow.messages)]
    IN  IF ShouldForward(message)
        THEN SendAll(L, DstConn(from_client),
                     FragmentizerCall(fragmentizer, message.content))
        ELSE L

\* A relay that logs a Ping or Pong and forwards nothing.
OnPingPongLogOnly(L, from_client, event) ==
    Yield(L, LogPingPong(event.kind, SrcConn(from_client), event.payload))

\* A relay that answers the sender instead of forwarding.
OnPingPongToSource(L, from_client, event) ==
    Send2(Yield(L, LogPingPong(event.kind, SrcConn(from_client),
                               event.payload)),
          SrcConn(from_client), event)

\* The Ping / Pong branch of the loop body.
OnPingPong(L, from_client, event) ==
    Send2(Yield(L, LogPingPong(event.kind, SrcConn(from_client),
                               event.payload)),
          DstConn(from_client), event)

\* A round that sends the close event to an OPEN codec only.
CloseOneOnlyWhenOpen(L, conn, event) ==
    LET L1 == IF Ws(L, conn).state = "OPEN"
              THEN Send2(L, conn, event)
              ELSE L
    IN  Yield(L1, CloseConnection(conn))

\* A round that closes the transport only of a codec it sent a close to.
CloseOneIfOpen(L, conn, event) ==
    IF Ws(L, conn).state \in {"OPEN", "REMOTE_CLOSING"}
    THEN Yield(Send2(L, conn, event), CloseConnection(conn))
    ELSE L

\* One round of "for ws in [self.server_ws, self.client_ws]".
CloseOne(L, conn, event) ==
    LET L1 == IF Ws(L, conn).state \in {"OPEN", "REMOTE_CLOSING"}
              THEN Send2(L, conn, event)
              ELSE L
    IN  Yield(L1, CloseConnection(conn))

\* A loop that closes the client's side first.
CloseOrderClientFirst == <<"client", "server">>

\* for ws in [self.server_ws, self.client_ws]
CloseOrder == <<"server", "client">>

\* A classification that forgets 1005 (no status received).
IsNormalCloseWithout1005(code) == code \in {1000, 1001}

\* ws_event.code in {1000, 1001, 1005}
IsNormalClose(code) == code \in {1000, 1001, 1005}

\* The CloseConnection branch of the loop body, up to its blocking yield
\* of the end or error hook.
OnCloseConnection(L, from_client, event) ==
    LET L1 == [L EXCEPT !.flow.closed_by_client = Some(from_client),
                        !.flow.close_code = Some(event.code),
                        !.flow.close_reason = event.reason]
        L2 == CloseOne(CloseOne(L1, CloseOrder[1], event), CloseOrder[2], event)
    IN  IF IsNormalClose(event.code)
        THEN Yield(L2, Hook("websocket_end", L2.flow))
        ELSE LET Le == [L2 EXCEPT !.flow.error =
                           Some("WebSocket Error: "
                                \o format_close_event(event))]
             IN  Yield(Le, Hook("websocket_error", Le.flow))

\* The CloseConnection branch after the hook has returned.
OnCloseConnectionResumed(L) == [L EXCEPT !.handler = "done"]

\* The body of "for ws_event in src_ws.events()" for one event, up to the
\* blocking yield of a hook if the branch has one.
LoopBody(L, from_client, event) ==
    IF event.kind \in {"TextMessage", "BytesMessage"}
    THEN OnMessage(L, from_client, event)
    ELSE IF event.kind \in {"Ping", "Pong"}
    THEN OnPingPong(L, from_client, event)
    ELSE IF event.kind = "CloseConnection"
    THEN OnCloseConnection(L, from_client, event)
    ELSE Raise(L, "AssertionError")

\* The blocking hook the loop body waits at after this event, "" if none.
BlocksAt(event) ==
    IF event.kind \in {"TextMessage", "BytesMessage"}
    THEN IF event.message_finished THEN "websocket_message" ELSE ""
    ELSE IF event.kind = "CloseConnection"
    THEN IF IsNormalClose(event.code) THEN "websocket_end"
         ELSE "websocket_error"
    ELSE ""

\* ------------------------------------------------------------------ actions

Idle == [active |-> FALSE, from_client |-> FALSE, kind |-> "", fed |-> FALSE]

InLoop(from_client, kind, fed) ==
    [active |-> TRUE, from_client |-> from_client, kind |-> kind, fed |-> fed]

\* The handler's effect on the layer becomes the next state.
Commit(L) ==
    /\ handler' = L.handler
    /\ client_ws' = L.client_ws
    /\ server_ws' = L.server_ws
    /\ flow' = L.flow
    /\ cmds' = L.cmds
    /\ raised' = L.raised

\* The loop goes on with the next event unless an exception left the handler.
Continue(L) == cur' = IF L.raised # "" THEN Idle ELSE cur

\* No handler waits for a hook.
Running == [at |-> "", fragmentizer |-> Fragmentizer(<<>>, FALSE)]

\* The handler waits at the blocking yield of the hook.
WaitingAt(hook, fragmentizer) == [at |-> hook, fragmentizer |-> fragmentizer]

\* events.Start is handled by start(), which runs to the blocking yield of
\* the start hook, or is left by an exception of finalize().
Start ==
    /\ handler = "start"
    /\ raised = ""
    /\ suspended.at = ""
    /\ LET L1 == StartHandler(Layer, ext_header)
       IN  /\ Commit(L1)
           /\ suspended' = IF L1.raised # "" THEN Running
                           ELSE WaitingAt("websocket_start", Running.fragmentizer)
    /\ UNCHANGED <<ext_header, cur, ws_event, drained, n_ev, frag>>

\* The start hook returns: start() switches the handler and ends.
StartHookReply ==
    /\ suspended.at = "websocket_start"
    /\ Commit(StartResumed(Layer))
    /\ suspended' = Running
    /\ UNCHANGED <<ext_header, cur, ws_event, drained, n_ev, frag>>

\* events.DataReceived reaches relay_messages: src_ws.receive_data(data),
\* then the loop over src_ws.events() begins.  A CLOSED codec refuses data;
\* one that is REMOTE_CLOSING ignores it.
DataReceived(from_client) ==
    /\ handler = "relay_messages"
    /\ raised = ""
    /\ suspended.at = ""
    /\ ~cur.active
    /\ LET src == Ws(Layer, SrcConn(from_client))
       IN  IF src.state = "CLOSED"
           THEN Commit(Raise(Layer, "LocalProtocolError")) /\ cur' = Idle
           ELSE /\ Commit(Layer)
                /\ cur' = InLoop(from_client, "DataReceived",
                                 src.state \in {"OPEN", "LOCAL_CLOSING"})
    /\ UNCHANGED <<ext_header, ws_event, drained, n_ev, suspended, frag>>

\* events.ConnectionClosed reaches relay_messages: src_ws.receive_data(None),
\* then the loop over src_ws.events() begins.
ConnectionClosed(from_client) ==
    /\ handler = "relay_messages"
    /\ raised = ""
    /\ suspended.at = ""
    /\ ~cur.active
    /\ n_ev < MaxEvents
    /\ LET src == SrcConn(from_client)
       IN  Commit(SetWs(Layer, src, AfterEndOfStream(Ws(Layer, src))))
    /\ cur' = InLoop(from_client, "ConnectionClosed", FALSE)
    /\ UNCHANGED <<ext_header, ws_event, drained, n_ev, suspended, frag>>

\* One pass through the loop body with the event events() yielded, up to
\* the blocking yield of a hook if the branch has one.  L is the layer
\* after events() has produced the event.
HandleEvent(L, event) ==
    /\ LET L1 == LoopBody(L, cur.from_client, event)
       IN  /\ Commit(L1)
           /\ Continue(L1)
           /\ suspended' =
                  IF L1.raised # "" \/ BlocksAt(event) = "" THEN Running
                  ELSE WaitingAt(BlocksAt(event),
                                 IF BlocksAt(event) = "websocket_message"
                                 THEN MessageFragmentizer(L, cur.from_client,
                                                          event)
                                 ELSE Running.fragmentizer)
    /\ ws_event' = event
    /\ n_ev' = n_ev + 1
    /\ UNCHANGED <<ext_header, drained, frag>>

\* The loop is about to take the next event of events().
AtLoopHead ==
    /\ cur.active
    /\ raised = ""
    /\ suspended.at = ""

\* events() first yields what receive_data queued.
QueuedEvent ==
    /\ AtLoopHead
    /\ LET src == SrcConn(cur.from_client)
           ws == Ws(Layer, src)
       IN  /\ ws.events # <<>>
           /\ HandleEvent(SetWs(Layer, src, [ws EXCEPT !.events = Tail(@)]),
                          Head(ws.events))

\* The codec can decode one more frame from the bytes it was fed.
\* relay_messages takes whatever events() yields, one event after the other,
\* and has no break: the codec alone decides what follows a close event in
\* the same chunk, so any event may follow here (the decoder of wsproto
\* itself stops at a close frame).
Decoding ==
    /\ AtLoopHead
    /\ cur.fed
    /\ Ws(Layer, SrcConn(cur.from_client)).events = <<>>
    /\ n_ev < MaxEvents

\* events() yields a fragment that does not finish its message.
FragmentEvent ==
    /\ Decoding
    /\ \E event \in MessageEvents :
           /\ ~event.message_finished
           /\ HandleEvent(Layer, event)

\* events() yields the fragment that finishes a message: the layer appends
\* the message and waits for the message hook.
MessageEvent ==
    /\ Decoding
    /\ \E event \in MessageEvents :
           /\ event.message_finished
           /\ HandleEvent(Layer, event)

\* The message hook returns; it may have killed the message and edited its
\* content.  The layer forwards the message and goes on with the loop.
MessageHookReply ==
    /\ suspended.at = "websocket_message"
    /\ \E hook \in HookChoices :
           LET L1 == OnMessageResumed(Hooked(Layer, hook.killed, hook.edit),
                                      cur.from_client, suspended.fragmentizer)
           IN  Commit(L1) /\ Continue(L1)
    /\ suspended' = Running
    /\ UNCHANGED <<ext_header, ws_event, drained, n_ev, frag>>

\* events() yields a Ping or a Pong.
PingPongEvent ==
    /\ Decoding
    /\ \E event \in PingPongEvents : HandleEvent(Layer, event)

\* events() yields the CloseConnection of a close frame; the codec has
\* moved to REMOTE_CLOSING (or CLOSED) by then.  A close frame without a
\* payload is reported as code 1005 with an empty reason.
CloseFrameEvent ==
    /\ Decoding
    /\ \E frame \in CloseFrames :
           LET src == SrcConn(cur.from_client)
           IN  HandleEvent(
                   SetWs(Layer, src, AfterCloseFrame(Ws(Layer, src))),
                   [kind |-> "CloseConnection", code |-> frame.code,
                    reason |-> Some(frame.reason)])

\* The bytes were malformed: events() turns wsproto's ParseFailed into a
\* CloseConnection event with the failure's code; the codec's state stays.
ParseFailedEvent ==
    /\ Decoding
    /\ HandleEvent(Layer, [kind |-> "CloseConnection", code |-> 1002,
                           reason |-> Some("Invalid opcode 0x3")])

\* The end or error hook returns: the layer is done, and the loop goes on.
CloseHookReply ==
    /\ suspended.at \in {"websocket_end", "websocket_error"}
    /\ Commit(OnCloseConnectionResumed(Layer))
    /\ suspended' = Running
    /\ UNCHANGED <<ext_header, cur, ws_event, drained, n_ev, frag>>

\* events() yields an event of another kind: the final else of the loop body.
UnexpectedEvent ==
    /\ Decoding
    /\ HandleEvent(Layer, [kind |-> "Request"])

\* events() is exhausted: relay_messages returns.
EndLoop ==
    /\ AtLoopHead
    /\ Ws(Layer, SrcConn(cur.from_client)).events = <<>>
    /\ cur' = Idle
    /\ UNCHANGED <<handler, ext_header, client_ws, server_ws, flow, cmds,
                   raised, ws_event, drained, n_ev, suspended, frag>>

\* A done() that still answers a closed connection with a close command.
DoneStillCloses(from_client, kind) ==
    /\ handler = "done"
    /\ raised = ""
    /\ suspended.at = ""
    /\ ~cur.active
    /\ drained < MaxDrain
    /\ kind \in {"DataReceived", "ConnectionClosed"}
    /\ drained' = drained + 1
    /\ cmds' = IF kind = "ConnectionClosed"
               THEN Append(cmds, CloseConnection(SrcConn(from_client)))
               ELSE cmds
    /\ UNCHANGED <<handler, ext_header, client_ws, server_ws, flow,
                   raised, cur, ws_event, n_ev, suspended, frag>>

\* An inbound event reaches done(): "yield from ()".
Done(from_client, kind) ==
    /\ handler = "done"
    /\ raised = ""
    /\ suspended.at = ""
    /\ ~cur.active
    /\ drained < MaxDrain
    /\ kind \in {"DataReceived", "ConnectionClosed"}
    /\ drained' = drained + 1
    /\ UNCHANGED <<handler, ext_header, client_ws, server_ws, flow, cmds,
                   raised, cur, ws_event, n_ev, suspended, frag>>

\* ----------------------------------------------------------- the Fragmentizer
\* under test: inputs drawn from bounded sets, then __call__ applied.

\* n bytes of well-formed UTF-8: as many whole copies of unit (the UTF-8
\* bytes of one character) as fit, after a padding of "a" in front.
Rep(unit, n) ==
    LET pad == n % Len(unit)
    IN  [i \in 1..n |->
            IF i <= pad THEN 97 ELSE unit[((i - pad - 1) % Len(unit)) + 1]]

\* "a", e-acute (2 bytes) and the euro sign (3 bytes).
Units == {<<97>>, <<195, 169>>, <<226, 130, 172>>}

\* Profiles of small fragments, and profiles with fragments around
\* FRAGMENT_SIZE (among them the single fragment of 9000 bytes).
SmallProfiles == UNION {[1..n -> 0..MaxFragLen] : n \in 1..MaxFrags}

BigProfiles ==
    {<<9000>>, <<FRAGMENT_SIZE, FRAGMENT_SIZE + 1>>,
     <<FRAGMENT_SIZE + 1, 0, FRAGMENT_SIZE - 1>>}

SmallLens == 0..MaxSmallLen

BigLens == {k * FRAGMENT_SIZE + d : k \in 1..MaxBlocks, d \in {-1, 0, 1}}

\* No Fragmentizer is under test.
FragIdle ==
    [profile |-> <<>>, is_text |-> FALSE, unit |-> <<97>>, n |-> 0,
     called |-> FALSE, parts |-> <<>>]

\* A Fragmentizer about to be built from fragments of the lengths of
\* profile, and called with Rep(unit, n).
FragInput(profile, is_text, unit, n) ==
    [profile |-> profile, is_text |-> is_text, unit |-> unit, n |-> n,
     called |-> FALSE, parts |-> <<>>]

\* The fragments the Fragmentizer under test is built from, and the content
\* it is called with.
FragFragments == [i \in 1..Len(frag.profile) |-> Rep(<<97>>, frag.profile[i])]
FragContent == Rep(frag.unit, frag.n)

\* The payload length of a part on the wire: the bytes of a BytesMessage,
\* the UTF-8 bytes of the str of a TextMessage.
PartLen(part) ==
    IF part.kind = "TextMessage" THEN Len(Encode(part.data))
    ELSE Len(part.data)

\* What is recorded of the parts a call yielded: kind, len(data), payload
\* length on the wire and the final flag, in order.
Observed(parts) ==
    [i \in 1..Len(parts) |->
        [kind |-> parts[i].kind, len |-> Len(parts[i].data),
         wire_len |-> PartLen(parts[i]),
         message_finished |-> parts[i].message_finished]]

\* Fragmentizer(fragments, is_text)(content), consumed to the end.
FragCall ==
    /\ ~frag.called
    /\ frag.profile # <<>>
    /\ frag' = [frag EXCEPT
                   !.called = TRUE,
                   !.parts = Observed(FragmentizerCall(
                                 Fragmentizer(FragFragments, frag.is_text),
                                 FragContent))]
    /\ UNCHANGED layer_vars

\* ----------------------------------------------------------- specifications

\* The layer after __init__, for a response with the given extension header.
LayerInitWith(header) ==
    /\ handler = "start"
    /\ ext_header = header
    /\ client_ws = Unset("client")
    /\ server_ws = Unset("server")
    /\ flow = [messages |-> <<>>, closed_by_client |-> None,
               close_code |-> None, close_reason |-> None, error |-> None]
    /\ cmds = <<>>
    /\ raised = ""
    /\ cur = Idle
    /\ ws_event = [kind |-> ""]
    /\ drained = 0
    /\ n_ev = 0
    /\ suspended = Running

LayerInit == LayerInitWith(JoinTokens(<<UnknownToken, DeflateToken>>))

Init == LayerInit /\ frag = FragIdle

Next ==
    \/ Start
    \/ StartHookReply
    \/ \E from_client \in BOOLEAN : DataReceived(from_client)
    \/ \E from_client \in BOOLEAN : ConnectionClosed(from_client)
    \/ QueuedEvent
    \/ FragmentEvent
    \/ MessageEvent
    \/ MessageHookReply
    \/ PingPongEvent
    \/ CloseFrameEvent
    \/ ParseFailedEvent
    \/ CloseHookReply
    \/ UnexpectedEvent
    \/ EndLoop
    \/ \E from_client \in BOOLEAN, kind \in {"DataReceived", "ConnectionClosed"} :
           Done(from_client, kind)

Spec == Init /\ [][Next]_vars

FragInit ==
    /\ LayerInit
    /\ \/ \E profile \in SmallProfiles, is_text \in BOOLEAN, unit \in Units :
              frag = FragInput(profile, is_text, unit, Sum(profile))
       \/ \E profile \in SmallProfiles, is_text \in BOOLEAN, unit \in Units,
             n \in SmallLens :
              frag = FragInput(profile, is_text, unit, n)
       \/ \E profile \in BigProfiles, is_text \in BOOLEAN, unit \in Units :
              frag = FragInput(profile, is_text, unit, Sum(profile))
       \/ \E profile \in {<<1>>, <<FRAGMENT_SIZE, 1>>}, is_text \in BOOLEAN,
             unit \in Units, n \in BigLens :
              frag = FragInput(profile, is_text, unit, n)

FragNext == FragCall

FragSpec == FragInit /\ [][FragNext]_vars

\* start() under test: the layer is constructed for a response with any
\* header of up to MaxTokens tokens, then started.
TokenSeqs == UNION {[1..n -> Tokens] : n \in 0..MaxTokens}

ExtInit ==
    /\ \E tokens \in TokenSeqs : LayerInitWith(JoinTokens(tokens))
    /\ frag = FragIdle

ExtNext == Start \/ StartHookReply

ExtSpec == ExtInit /\ [][ExtNext]_vars

\* ==================================================================== claims

\* The commands yielded by the step.
NewCmds == SubSeq(cmds', Len(cmds) + 1, Len(cmds'))

IsSend(c) == c.cmd = "SendData"
IsHook(c, name) == c.cmd = "Hook" /\ c.name = name

\* How many commands of a sequence satisfy a test.
Count(seq, Test(_)) == Len(SelectSeq(seq, Test))

\* The step took one event from events() and ran the loop body on it.
Handled(kinds) == n_ev' = n_ev + 1 /\ ws_event'.kind \in kinds

\* A part has length n: its payload is n bytes long; for a text part, whose
\* data is a str, a str of n characters is accepted as well.
HasLength(part, n) == part.wire_len = n \/ part.len = n

\* C1 (as stated): exact replay.  When the content is not empty and as long
\* as the profile's sum, __call__ yields len(profile) parts, the lengths of
\* the parts are the profile in order, and only the last part is final.
C1_ExactReplay ==
    (frag.called /\ frag.n > 0 /\ frag.n = Sum(frag.profile))
    => /\ Len(frag.parts) = Len(frag.profile)
       /\ \A i \in 1..Len(frag.parts) :
              /\ HasLength(frag.parts[i], frag.profile[i])
              /\ frag.parts[i].message_finished = (i = Len(frag.parts))

\* C2 (as stated): re-chunk bound.  When the content is not empty and its
\* length differs from the profile's sum, every part but the last is 4000
\* long, the last is len mod 4000 long (4000 when that is 0), and only the
\* last part is final.
C2_RechunkBound ==
    (frag.called /\ frag.n > 0 /\ frag.n # Sum(frag.profile))
    => LET last == IF frag.n % 4000 = 0 THEN 4000 ELSE frag.n % 4000
       IN  /\ frag.parts # <<>>
           /\ \A i \in 1..Len(frag.parts) :
                  /\ i < Len(frag.parts) => HasLength(frag.parts[i], 4000)
                  /\ i = Len(frag.parts) => HasLength(frag.parts[i], last)
                  /\ frag.parts[i].message_finished = (i = Len(frag.parts))

\* --------------------------------------------------------------- the layer

\* The step completed a message: the loop body ran on a final fragment, up
\* to the yield of the message hook.
MessageCompleted ==
    Handled({"TextMessage", "BytesMessage"}) /\ ws_event'.message_finished

\* The step is the rest of the Message branch: the message hook returned.
MessageHookReturned ==
    suspended.at = "websocket_message" /\ suspended'.at = ""

\* The handler waits at the end hook or at the error hook.
AtTerminalHook(s) == s.at \in {"websocket_end", "websocket_error"}

\* The step handled a close event while the layer was relaying.
CloseInRelaying == handler = "relay_messages" /\ Handled({"CloseConnection"})

IsEndHook(c) == IsHook(c, "websocket_end")
IsErrorHook(c) == IsHook(c, "websocket_error")
IsMessageHook(c) == IsHook(c, "websocket_message")
IsTerminalHook(c) == IsEndHook(c) \/ IsErrorHook(c)
IsCloseOf(conn, c) == c = CloseConnection(conn)

\* C3: a completed message whose content is empty once the message hook has
\* returned yields no send command at all (and no fault), whether the hook
\* emptied it or it arrived empty.
C3_EmptyContent ==
    [][(MessageHookReturned
        /\ flow'.messages[Len(flow'.messages)].content = <<>>)
       => (NewCmds = <<>> /\ raised' = "" /\ handler' = handler)]_vars

\* Two messages of one fragment each were completed: a text message the
\* hook emptied, then a binary message that arrived empty; nothing was sent.
C3_Witness ==
    /\ handler = "relay_messages"
    /\ n_ev = 2
    /\ Len(flow.messages) = 2
    /\ flow.messages[1].type = "TEXT"
    /\ \A i \in 1..2 : flow.messages[i].content = <<>> /\ ~flow.messages[i].killed
    /\ ws_event = [kind |-> "BytesMessage", data |-> <<>>,
                   message_finished |-> TRUE]
    /\ Count(cmds, IsSend) = 0
    /\ Count(cmds, IsMessageHook) = 2
    /\ suspended.at = ""

\* The description expected for the abnormal close codes that occur.
C4_Description(code, reason) ==
    LET name == CASE code = 1002 -> "PROTOCOL_ERROR"
                  [] code = 1006 -> "ABNORMAL_CLOSURE"
                  [] code = 1011 -> "INTERNAL_ERROR"
                  [] OTHER -> "UNKNOWN_ERROR=" \o ToString(code)
    IN  IF reason = None \/ reason = Some("") THEN name
        ELSE name \o " (reason: " \o reason[1] \o ")"

\* C4: a close event handled while relaying fires the end hook alone and
\* leaves flow.error as it was when its code is 1000, 1001 or 1005; for any
\* other code it fires the error hook alone, with flow.error already set,
\* to the close reason's name (or the raw code), then the reason if any.
C4_CloseClassification ==
    [][CloseInRelaying
       => LET code == ws_event'.code
              last == NewCmds[Len(NewCmds)]
          IN  IF code \in {1000, 1001, 1005}
              THEN /\ IsEndHook(last)
                   /\ Count(NewCmds, IsTerminalHook) = 1
                   /\ flow'.error = flow.error
              ELSE /\ IsErrorHook(last)
                   /\ Count(NewCmds, IsTerminalHook) = 1
                   /\ flow'.error =
                          Some("WebSocket Error: "
                               \o C4_Description(code, ws_event'.reason))
                   /\ last.error = flow'.error]_vars

\* A close frame with a code that has no name, and a reason, ended the session.
C4_Witness ==
    /\ handler = "done"
    /\ n_ev = 1
    /\ ws_event.kind = "CloseConnection"
    /\ flow.error = Some("WebSocket Error: UNKNOWN_ERROR=4000 (reason: bye)")
    /\ IsErrorHook(cmds[Len(cmds)])

\* C5 (as stated): the end hook and the error hook fire at most once in
\* total, and exactly once in total once a close event has been observed,
\* whatever events the codec produces for one inbound chunk.
C5_OneTerminalHook ==
    /\ Count(cmds, IsTerminalHook) <= 1
    /\ flow.close_code # None => Count(cmds, IsTerminalHook) = 1

\* C6: while relaying, a completed message is added to the flow before its
\* hook fires and stays there when the hook has returned, and the layer
\* goes on relaying without a fault; if the hook killed it nothing is sent
\* for it, and a message that is not killed and not empty (also one that
\* follows a killed message, from either side) is sent to the other side.
C6_Suppression ==
    [][/\ (handler = "relay_messages" /\ MessageCompleted)
              => /\ Len(flow'.messages) = Len(flow.messages) + 1
                 /\ SubSeq(flow'.messages, 1, Len(flow.messages))
                        = flow.messages
                 /\ flow'.messages[Len(flow'.messages)].from_client
                        = cur.from_client
                 /\ Count(NewCmds, IsSend) = 0
       /\ (handler = "relay_messages" /\ MessageHookReturned)
              => LET m == flow'.messages[Len(flow'.messages)]
                     ToDst(c) == IsSend(c) /\ c.conn = DstConn(cur.from_client)
                 IN  /\ Len(flow'.messages) = Len(flow.messages)
                     /\ SubSeq(flow'.messages, 1, Len(flow.messages) - 1)
                            = SubSeq(flow.messages, 1, Len(flow.messages) - 1)
                     /\ m.from_client = cur.from_client
                     /\ handler' = "relay_messages"
                     /\ raised' = ""
                     /\ m.killed => NewCmds = <<>>
                     /\ (~m.killed /\ m.content # <<>>)
                            => (Count(NewCmds, ToDst) >= 1
                                /\ Len(NewCmds) = Count(NewCmds, ToDst))]_vars

\* The client's message was killed, then a message of the server was relayed
\* to the client: the only data sent.
C6_Witness ==
    /\ handler = "relay_messages"
    /\ Len(flow.messages) = 2
    /\ flow.messages[1].killed /\ flow.messages[1].from_client
    /\ ~flow.messages[2].killed /\ ~flow.messages[2].from_client
    /\ Count(cmds, IsSend) = 1
    /\ cmds[Len(cmds)].cmd = "SendData"
    /\ cmds[Len(cmds)].conn = "client"

\* C7: while relaying, a Ping or Pong yields exactly one send command, to
\* the other side, holding the same event; the flow's messages and both
\* frame buffers stay as they were and no message hook fires.
C7_ControlPassthrough ==
    [][(handler = "relay_messages" /\ Handled({"Ping", "Pong"}))
       => /\ Count(NewCmds, IsSend) = 1
          /\ NewCmds[Len(NewCmds)]
                 = SendData(DstConn(cur.from_client), ws_event')
          /\ Count(NewCmds, IsMessageHook) = 0
          /\ flow' = flow
          /\ client_ws'.frame_buf = client_ws.frame_buf
          /\ server_ws'.frame_buf = server_ws.frame_buf
          /\ handler' = handler
          /\ raised' = ""]_vars

\* The server's Ping reached the client while a message of the server was
\* still being buffered.
C7_Witness ==
    /\ handler = "relay_messages"
    /\ server_ws.frame_buf # <<>>
    /\ ws_event = [kind |-> "Ping", payload |-> <<9>>]
    /\ cmds[Len(cmds)] = SendData("client", ws_event)
    /\ flow.messages = <<>>

\* C8: a close event handled while relaying, from either side and from a
\* close frame or the end of the stream alike, yields one transport close
\* command for the client and one for the server in that very step, before
\* the end or error hook it then waits at; when the hook returns the layer
\* is done, and nothing else happens while it waits.
C8_SymmetricShutdown ==
    [][/\ CloseInRelaying
              => /\ Count(NewCmds, LAMBDA c : IsCloseOf("client", c)) = 1
                 /\ Count(NewCmds, LAMBDA c : IsCloseOf("server", c)) = 1
                 /\ IsTerminalHook(NewCmds[Len(NewCmds)])
                 /\ AtTerminalHook(suspended')
                 /\ raised' = ""
       /\ AtTerminalHook(suspended)
              => /\ suspended'.at = ""
                 /\ handler' = "done"
                 /\ NewCmds = <<>>
                 /\ raised' = ""]_vars

\* The server's transport ended without a close frame: both connections
\* were closed and the layer is done.
C8_Witness ==
    /\ handler = "done"
    /\ n_ev = 1
    /\ cur.kind = "ConnectionClosed" /\ ~cur.from_client
    /\ server_ws.state = "CLOSED"
    /\ Count(cmds, LAMBDA c : IsCloseOf("client", c)) = 1
    /\ Count(cmds, LAMBDA c : IsCloseOf("server", c)) = 1

\* C9 (as stated): once the layer is done no send command is yielded and no
\* message is appended to the flow, neither for later inbound events nor
\* for events the codec produced after the close event in the same chunk.
C9_NoForwardingAfterDone ==
    [][handler = "done"
       => (Count(NewCmds, IsSend) = 0 /\ flow'.messages = flow.messages)]_vars

\* C10: an inbound event that reaches the layer when it is done is accepted
\* without a fault and changes nothing: no command, the flow, both frame
\* buffers and both codecs as before, and the layer still done.
C10_IdempotentDrain ==
    [][(handler = "done" /\ ~cur.active /\ drained' = drained + 1)
       => /\ cmds' = cmds
          /\ flow' = flow
          /\ client_ws' = client_ws
          /\ server_ws' = server_ws
          /\ handler' = "done"
          /\ raised' = ""]_vars

\* Two inbound events were drained after an abnormal close.
C10_Witness ==
    /\ handler = "done"
    /\ drained = 2
    /\ flow.error # None
    /\ raised = ""

\* The positions in the commands yielded so far at which a test holds.
Positions(Test(_)) == {i \in 1..Len(cmds) : Test(cmds[i])}

IsStartHook(c) == IsHook(c, "websocket_start")
IsAnyHook(c) == c.cmd = "Hook"

\* C11 (as stated): hook ordering.  Once start() has run the start hook has
\* fired exactly once and before every other hook, and no message hook
\* fires after the end hook or the error hook.
C11_HookOrdering ==
    /\ (handler = "start" /\ suspended.at = "") => Positions(IsAnyHook) = {}
    /\ (handler # "start" \/ suspended.at # "")
           => Count(cmds, IsStartHook) = 1
    /\ \A i \in Positions(IsStartHook), j \in Positions(IsAnyHook) : i <= j
    /\ \A i \in Positions(IsTerminalHook), j \in Positions(IsMessageHook) : j < i

\* The step handled a fault of the codec while relaying: the close event
\* that events() makes of a decode fault, or an event of another kind than
\* message, Ping, Pong and close.
FaultInRelaying ==
    /\ handler = "relay_messages"
    /\ n_ev' = n_ev + 1
    /\ \/ ws_event'.kind \notin {"TextMessage", "BytesMessage", "Ping", "Pong",
                                 "CloseConnection"}
       \/ (ws_event'.kind = "CloseConnection" /\ ws_event'.code = 1002)

\* C12 (as stated): fatal fault path.  A decode fault or an event of an
\* unknown kind, handled while relaying, yields a transport close command
\* for both connections and the error hook (not the end hook) with the
\* flow error set; the layer then waits at the error hook and is done when
\* the hook returns.
C12_FatalFaultPath ==
    [][/\ FaultInRelaying
              => /\ Count(NewCmds, LAMBDA c : IsCloseOf("client", c)) = 1
                 /\ Count(NewCmds, LAMBDA c : IsCloseOf("server", c)) = 1
                 /\ Count(NewCmds, IsErrorHook) = 1
                 /\ Count(NewCmds, IsEndHook) = 0
                 /\ flow'.error # None
                 /\ suspended'.at = "websocket_error"
       /\ suspended.at = "websocket_error" => handler' = "done"]_vars

\* The half of C12 about decode faults alone.
C12_DecodeFaultPath ==
    [][(FaultInRelaying /\ ws_event'.kind = "CloseConnection")
       => /\ Count(NewCmds, LAMBDA c : IsCloseOf("client", c)) = 1
          /\ Count(NewCmds, LAMBDA c : IsCloseOf("server", c)) = 1
          /\ Count(NewCmds, IsErrorHook) = 1
          /\ Count(NewCmds, IsEndHook) = 0
          /\ flow'.error # None
          /\ suspended'.at = "websocket_error"]_vars

\* The token sequences a header was joined from (an empty header has no
\* token).
C13_TokensOf(header) ==
    IF header = <<>> THEN {<<>>}
    ELSE {tokens \in TokenSeqs : JoinTokens(tokens) = header}

\* The tokens that name per-message compression, and those among them whose
\* parameters finalize() rejects.
C13_Recognized(token) ==
    token \in {DeflateToken, BareDeflateToken, SeparatorToken, NoValueToken,
               OutOfRangeToken, NotANumberToken}
C13_Unrecognized(token) == ~C13_Recognized(token)
C13_Malformed(token) ==
    token \in {NoValueToken, OutOfRangeToken, NotANumberToken}

\* The offer of a recognized token (the token without the whitespace around
\* it), and the name an unrecognized one is logged with.
C13_Offer(token) ==
    IF token = BareDeflateToken THEN PerMessageDeflateName
    ELSE IF token = SeparatorToken THEN Tail(token)
    ELSE token
C13_LoggedName(token) ==
    IF token = NonAsciiToken THEN <<100, 63>> ELSE token

IsLog(c) == c.cmd = "Log"

\* start() has been called: it waits at the start hook, has returned, or
\* was left by an exception.
C13_Started == handler # "start" \/ suspended.at # "" \/ raised # ""

\* What C13 asks of the layer once start() has been called with a header
\* joined from tokens.
C13_Negotiated(tokens) ==
    LET rec == SelectSeq(tokens, C13_Recognized)
        unrec == SelectSeq(tokens, C13_Unrecognized)
        cl == client_ws.extensions
        sv == server_ws.extensions
        all == cl \o sv
    IN  /\ Len(cl) = Len(rec) /\ Len(sv) = Len(rec)
        /\ \A i \in 1..Len(rec) :
               /\ cl[i].offer = C13_Offer(rec[i]) /\ cl[i].enabled
               /\ sv[i].offer = C13_Offer(rec[i]) /\ sv[i].enabled
        /\ \A i, j \in 1..Len(all) : i # j => all[i].id # all[j].id
        /\ SelectSeq(cmds, IsLog)
               = [i \in 1..Len(unrec) |->
                      LogUnknownExtension(C13_LoggedName(unrec[i]))]
        /\ Count(cmds, IsStartHook) = 1
        /\ IsStartHook(cmds[Len(cmds)])
        /\ raised = ""
        /\ (handler = "relay_messages" \/ suspended.at = "websocket_start")

\* C13 (as stated): extension negotiation.  Once start() has been called,
\* for every header: each of the two extension lists holds one instance per
\* recognized token, in token order, and no instance is in both lists; the
\* unrecognized tokens are logged once each, in order; the start hook has
\* fired, no exception left start(), and the layer relays as soon as the
\* hook has returned.
C13_ExtensionNegotiation ==
    C13_Started
    => \A tokens \in C13_TokensOf(ext_header) : C13_Negotiated(tokens)

\* The same for the headers whose recognized tokens all carry parameters
\* that finalize() accepts.
C13_WellFormedNegotiation ==
    C13_Started
    => \A tokens \in C13_TokensOf(ext_header) :
           (\A i \in 1..Len(tokens) : ~C13_Malformed(tokens[i]))
               => C13_Negotiated(tokens)

\* A header with a malformed recognized token leaves start() by an
\* exception before the codecs are built and before the start hook.
C13_MalformedRaises ==
    C13_Started
    => \A tokens \in C13_TokensOf(ext_header) :
           (\E i \in 1..Len(tokens) : C13_Malformed(tokens[i]))
               => /\ raised \in {"IndexError", "ValueError"}
                  /\ handler = "start"
                  /\ client_ws.state = "UNSET" /\ server_ws.state = "UNSET"
                  /\ Count(cmds, IsAnyHook) = 0

\* A header of two recognized tokens around an unrecognized one was
\* negotiated: two instances for each codec, one log entry.
C13_Witness ==
    /\ handler = "relay_messages"
    /\ ext_header = JoinTokens(<<DeflateToken, CapitalToken, BareDeflateToken>>)
    /\ Len(client_ws.extensions) = 2
    /\ Len(server_ws.extensions) = 2
    /\ Count(cmds, IsLog) = 1

\* The bytes a fragment event adds to the frame buffer.
FragmentBytes(event) ==
    IF event.kind = "TextMessage" THEN Encode(event.data) ELSE event.data

\* The payload lengths of the message parts among the commands of the step.
SentLengths ==
    LET sends == SelectSeq(NewCmds, IsSend)
    IN  [i \in 1..Len(sends) |-> Len(FragmentBytes(sends[i].event))]

\* C14: per-direction reassembly.  A fragment from one side never touches
\* the other side's frame buffer; a non-final fragment is added at the end of
\* its own side's buffer; the message created at a final fragment is of
\* that side and made of that side's buffered fragments and the final one,
\* in arrival order, and their lengths are what the layer keeps while the
\* hook runs; the hook may then edit the message, and when it is forwarded
\* as created its parts have the lengths of these fragments.
C14_PerDirectionReassembly ==
    [][/\ Handled({"TextMessage", "BytesMessage"})
          => LET src == IF cur.from_client THEN client_ws ELSE server_ws
                 src_after == IF cur.from_client THEN client_ws' ELSE server_ws'
                 other == IF cur.from_client THEN server_ws ELSE client_ws
                 other_after == IF cur.from_client THEN server_ws' ELSE client_ws'
                 frags == Append(src.frame_buf, FragmentBytes(ws_event'))
                 m == flow'.messages[Len(flow'.messages)]
             IN  /\ other_after.frame_buf = other.frame_buf
                 /\ ~ws_event'.message_finished
                        => (src_after.frame_buf = frags /\ flow' = flow)
                 /\ ws_event'.message_finished
                        => /\ Len(flow'.messages) = Len(flow.messages) + 1
                           /\ m.from_client = cur.from_client
                           /\ m.content = Join(frags)
                           /\ suspended'.fragmentizer.fragment_lengths
                                  = [i \in 1..Len(frags) |-> Len(frags[i])]
       /\ MessageHookReturned
          => LET created == flow.messages[Len(flow.messages)]
                 m == flow'.messages[Len(flow'.messages)]
             IN  /\ Len(flow'.messages) = Len(flow.messages)
                 /\ m.from_client = created.from_client
                 /\ \E edit \in Edits :
                        m.content = ApplyEdit(edit, created.content)
                 /\ client_ws'.frame_buf = client_ws.frame_buf
                 /\ server_ws'.frame_buf = server_ws.frame_buf
                 /\ (handler = "relay_messages" /\ ~m.killed
                     /\ m.content = created.content /\ m.content # <<>>)
                        => SentLengths
                               = suspended.fragmentizer.fragment_lengths]_vars

\* The server's message of two fragments was completed and forwarded in two
\* parts while a fragment of the client was waiting in the client's buffer.
C14_Witness ==
    /\ handler = "relay_messages"
    /\ client_ws.frame_buf = <<<<226, 130, 172>>>>
    /\ server_ws.frame_buf = <<>>
    /\ Len(flow.messages) = 1
    /\ flow.messages[1] = [type |-> "BINARY", from_client |-> FALSE,
                           content |-> <<7, 7>>, killed |-> FALSE]
    /\ Count(cmds, IsSend) = 2

\* C15: frame-buffer invariant.  A non-final fragment only appends to its
\* source side's frame buffer: no command, no flow change, nothing else of
\* the layer changes.  After a final fragment the source side's buffer is
\* empty.  Events of other kinds leave both buffers as they are.  So each
\* buffer holds the fragments of its side's unfinished message only.
C15_FrameBufferInvariant ==
    [][(n_ev' = n_ev + 1)
       => LET src == IF cur.from_client THEN client_ws ELSE server_ws
              src_after == IF cur.from_client THEN client_ws' ELSE server_ws'
              other == IF cur.from_client THEN server_ws ELSE client_ws
              other_after == IF cur.from_client THEN server_ws' ELSE client_ws'
              is_message == ws_event'.kind \in {"TextMessage", "BytesMessage"}
          IN  /\ (is_message /\ ~ws_event'.message_finished)
                     => /\ src_after =
                               [src EXCEPT !.frame_buf =
                                    Append(@, FragmentBytes(ws_event'))]
                        /\ other_after = other
                        /\ NewCmds = <<>>
                        /\ flow' = flow
                        /\ handler' = handler
                        /\ raised' = ""
              /\ (is_message /\ ws_event'.message_finished)
                     => src_after.frame_buf = <<>>
              /\ is_message => other_after.frame_buf = other.frame_buf
              /\ ~is_message
                     => /\ client_ws'.frame_buf = client_ws.frame_buf
                        /\ server_ws'.frame_buf = server_ws.frame_buf]_vars

\* The client sent a message in two fragments and then one in a single
\* fragment: the second message holds nothing of the first and the buffer
\* is empty again.
C15_Witness ==
    /\ handler = "relay_messages"
    /\ n_ev = 3
    /\ client_ws.frame_buf = <<>>
    /\ Len(flow.messages) = 2
    /\ flow.messages[1].from_client /\ flow.messages[1].content = <<7, 7>>
    /\ flow.messages[2].from_client /\ flow.messages[2].content = <<7>>
    /\ suspended.at = ""

\* The protocol state of a codec when the close event of the step is being
\* handled: the state before the step, except that the source codec has
\* registered the close frame the event was decoded from (the close events
\* of a decode fault, code 1002, and of the end of the stream, code 1006,
\* come without a frame).
C16_StateAtClose(conn) ==
    LET before == IF conn = "client" THEN client_ws.state ELSE server_ws.state
        is_src == conn = (IF cur.from_client THEN "client" ELSE "server")
        from_frame == ws_event'.code \in {frame.code : frame \in CloseFrames}
    IN  IF is_src /\ from_frame
        THEN IF before = "LOCAL_CLOSING" THEN "CLOSED" ELSE "REMOTE_CLOSING"
        ELSE before

\* C16: close-frame propagation by codec state.  While a close event is
\* handled, the same event is sent to a codec exactly when that codec is
\* OPEN or REMOTE_CLOSING, nothing else is sent to it, and the transport
\* close command of its connection is yielded once, whatever its state, and
\* after the close frame sent to it.
C16_ClosePropagation ==
    [][Handled({"CloseConnection"})
       => \A conn \in {"client", "server"} :
              LET sends == {i \in 1..Len(NewCmds) :
                                NewCmds[i] = SendData(conn, ws_event')}
                  to_conn == {i \in 1..Len(NewCmds) :
                                  IsSend(NewCmds[i]) /\ NewCmds[i].conn = conn}
                  closes == {i \in 1..Len(NewCmds) :
                                 NewCmds[i] = CloseConnection(conn)}
              IN  /\ (C16_StateAtClose(conn) \in {"OPEN", "REMOTE_CLOSING"})
                         <=> Cardinality(sends) = 1
                  /\ to_conn = sends
                  /\ Cardinality(sends) <= 1
                  /\ Cardinality(closes) = 1
                  /\ \A i \in sends, j \in closes : i < j]_vars

\* The client's transport ended without a close frame while both codecs
\* were open: the close event went to the server only, and both transports
\* were closed.
C16_Witness ==
    /\ handler = "done"
    /\ n_ev = 1
    /\ cur.kind = "ConnectionClosed" /\ cur.from_client
    /\ ws_event.code = 1006
    /\ \E i \in 1..Len(cmds) : cmds[i] = SendData("server", ws_event)
    /\ \A i \in 1..Len(cmds) : IsSend(cmds[i]) => cmds[i].conn = "server"
    /\ \E i \in 1..Len(cmds) : cmds[i] = CloseConnection("client")
    /\ \E i \in 1..Len(cmds) : cmds[i] = CloseConnection("server")
    /\ server_ws.state = "LOCAL_CLOSING"

\* Among the commands of the step, every command for connection first comes
\* before every command for connection second.
C17_Before(first, second) ==
    \A i, j \in 1..Len(NewCmds) :
        (/\ NewCmds[i].cmd \in {"SendData", "CloseConnection"}
         /\ NewCmds[j].cmd \in {"SendData", "CloseConnection"}
         /\ NewCmds[i].conn = first
         /\ NewCmds[j].conn = second) => i < j

\* C17 (as stated): close ordering.  When a close event is handled, the close
\* frame and the transport close command of the side that did not initiate
\* the close come first and those of the initiator's side second, for a
\* close initiated by the client and by the server alike.
C17_DestinationFirst ==
    [][Handled({"CloseConnection"})
       => IF cur.from_client THEN C17_Before("server", "client")
          ELSE C17_Before("client", "server")]_vars

\* C17 (amended): when a close event is handled, the close frame and the
\* transport close command of the server's side come first and those of the
\* client's side second, whichever side initiated the close.
C17_ServerFirst ==
    [][Handled({"CloseConnection"})
       => /\ C17_Before("server", "client")
          /\ \E i \in 1..Len(NewCmds) : NewCmds[i] = CloseConnection("server")
          /\ \E i \in 1..Len(NewCmds) : NewCmds[i] = CloseConnection("client")]_vars

\* The server sent a close frame while both codecs were open: the echo and
\* the transport close of the server came before those of the client.
C17_Witness ==
    /\ handler = "done"
    /\ n_ev = 1
    /\ ~cur.from_client
    /\ ws_event.kind = "CloseConnection" /\ ws_event.code = 1000
    /\ Len(cmds) >= 5
    /\ SubSeq(cmds, Len(cmds) - 4, Len(cmds) - 1)
           = <<SendData("server", ws_event), CloseConnection("server"),
               SendData("client", ws_event), CloseConnection("client")>>

\* C18: per-direction ordering.  Commands are only ever added at the end.
\* A message completed while relaying is added at the end of the flow's
\* messages and the only command of that step is its message hook, fired
\* when it is flow.messages[-1]; the layer then waits, and its next step is
\* the return of the hook; every command of that step is a part sent to the
\* other side, so the parts follow the hook and are contiguous; only the
\* last part is final, and the parts of a binary message are the content
\* the hook left, in order.
C18_PerDirectionOrdering ==
    [][/\ SubSeq(cmds', 1, Len(cmds)) = cmds
       /\ (handler = "relay_messages" /\ MessageCompleted)
              => LET m == flow'.messages[Len(flow'.messages)]
                 IN  /\ flow'.messages = Append(flow.messages, m)
                     /\ NewCmds = <<[cmd |-> "Hook",
                                     name |-> "websocket_message",
                                     error |-> flow'.error,
                                     messages |-> Len(flow.messages) + 1]>>
                     /\ suspended'.at = "websocket_message"
       /\ suspended.at = "websocket_message" => suspended'.at = ""
       /\ (handler = "relay_messages" /\ MessageHookReturned)
              => LET m == flow'.messages[Len(flow'.messages)]
                 IN  /\ \A i \in 1..Len(NewCmds) :
                            /\ IsSend(NewCmds[i])
                            /\ NewCmds[i].conn = DstConn(cur.from_client)
                            /\ NewCmds[i].event.kind
                                   \in {"TextMessage", "BytesMessage"}
                            /\ NewCmds[i].event.message_finished
                                   = (i = Len(NewCmds))
                     /\ (m.type = "BINARY" /\ ~m.killed)
                            => Join([i \in 1..Len(NewCmds) |->
                                        NewCmds[i].event.data])
                                   = m.content]_vars

\* The client's first message was forwarded in one part, its second, of two
\* fragments, in two parts after its own hook: hook, part, hook, part, part.
C18_Witness ==
    /\ handler = "relay_messages"
    /\ Len(flow.messages) = 2
    /\ \A i \in 1..2 : flow.messages[i].from_client /\ ~flow.messages[i].killed
    /\ flow.messages[2].content = <<7, 7>>
    /\ Len(cmds) >= 5
    /\ LET last == SubSeq(cmds, Len(cmds) - 4, Len(cmds))
       IN  /\ IsMessageHook(last[1]) /\ last[1].messages = 1
           /\ IsSend(last[2]) /\ last[2].event.message_finished
           /\ IsMessageHook(last[3]) /\ last[3].messages = 2
           /\ IsSend(last[4]) /\ ~last[4].event.message_finished
           /\ IsSend(last[5]) /\ last[5].event.message_finished

\* The parts Fragmentizer(fragments, is_text=False)(content) yields for the
\* Fragmentizer under test.
C19_Parts ==
    FragmentizerCall(Fragmentizer(FragFragments, FALSE), FragContent)

\* C19: content conservation.  For a binary Fragmentizer called with
\* non-empty content, on the replay path and on the re-chunk path alike, the
\* parts yielded are those recorded, all of them BytesMessages, their data
\* joined in order is the content byte for byte, and exactly one part, the
\* last, is final.
C19_ContentConservation ==
    (frag.called /\ ~frag.is_text /\ frag.n > 0)
        => /\ Observed(C19_Parts) = frag.parts
           /\ C19_Parts # <<>>
           /\ \A i \in 1..Len(C19_Parts) :
                  /\ C19_Parts[i].kind = "BytesMessage"
                  /\ C19_Parts[i].message_finished = (i = Len(C19_Parts))
           /\ Join([i \in 1..Len(C19_Parts) |-> C19_Parts[i].data])
                  = FragContent

\* A binary content of 2 * FRAGMENT_SIZE + 1 bytes, not all alike, was
\* re-chunked into three parts.
C19_Witness ==
    /\ frag.called /\ ~frag.is_text
    /\ frag.unit = <<226, 130, 172>>
    /\ frag.n = 2 * FRAGMENT_SIZE + 1
    /\ frag.n # Sum(frag.profile)
    /\ Len(frag.parts) = 3
    /\ frag.parts[3].message_finished /\ frag.parts[3].len = 1

\* A binary content of three fragments was replayed at the same boundaries.
C19_ReplayWitness ==
    /\ frag.called /\ ~frag.is_text
    /\ frag.unit = <<226, 130, 172>>
    /\ frag.profile = <<FRAGMENT_SIZE + 1, 0, FRAGMENT_SIZE - 1>>
    /\ frag.n = Sum(frag.profile)
    /\ Len(frag.parts) = 3
    /\ frag.parts[2].len = 0 /\ frag.parts[3].message_finished

\* The command sends a part of a message.
C20_IsMessagePart(c) ==
    IsSend(c) /\ c.event.kind \in {"TextMessage", "BytesMessage"}

\* C20: control frames overtake buffered fragments.  Commands are only ever
\* added at the end; a non-final fragment handled while relaying adds none,
\* so no part of an unfinished message has been sent; a Ping or Pong handled
\* while fragments of its own side are buffered is sent to the other side in
\* that very step, with no message part, and the buffered fragments stay.
\* The parts of that message, sent when its final fragment arrives, thus
\* come after the control frame that arrived after its first fragments.
C20_ControlOvertakes ==
    [][/\ SubSeq(cmds', 1, Len(cmds)) = cmds
       /\ (handler = "relay_messages"
           /\ Handled({"TextMessage", "BytesMessage"})
           /\ ~ws_event'.message_finished)
              => NewCmds = <<>>
       /\ (handler = "relay_messages" /\ Handled({"Ping", "Pong"})
           /\ Ws(Layer, SrcConn(cur.from_client)).frame_buf # <<>>)
              => LET src == SrcConn(cur.from_client)
                     buf == IF cur.from_client THEN client_ws'.frame_buf
                            ELSE server_ws'.frame_buf
                 IN  /\ NewCmds # <<>>
                     /\ NewCmds[Len(NewCmds)]
                            = SendData(DstConn(cur.from_client), ws_event')
                     /\ Count(NewCmds, C20_IsMessagePart) = 0
                     /\ Count(cmds', IsSend) = Count(cmds, IsSend) + 1
                     /\ buf = Ws(Layer, src).frame_buf]_vars

\* The client's Pong, which arrived after the first fragment of a client
\* message, is the last command, sent to the server, while the fragment is
\* still buffered and no part of any message has been sent.
C20_Witness ==
    /\ handler = "relay_messages"
    /\ n_ev = 2
    /\ cur.from_client
    /\ client_ws.frame_buf = <<<<7>>>>
    /\ ws_event = [kind |-> "Pong", payload |-> <<9>>]
    /\ cmds[Len(cmds)] = SendData("server", ws_event)
    /\ Count(cmds, C20_IsMessagePart) = 0

====
